---- MODULE Spec2Model ----
(***************************************************************************)
(* Access-control model of the temple membership admin dashboard:          *)
(* the relational schema with its row-level-security policies and the      *)
(* is_admin function (initial schema migration), the admin bootstrap       *)
(* migration, the useAdminAuth guard hook and the admin login page.        *)
(***************************************************************************)
EXTENDS Integers, FiniteSets, Sequences, TLC

(* ------------------------------ bounds -------------------------------- *)
\* number of membership_applications rows held at one time
MaxApps == 1
\* number of checkAdminStatus runs started by one mounted guard
MaxChecks == 3
\* number of submissions of each form of the login page
MaxSubmits == 1
\* number of fetchDashboardStats calls followed
MaxCalls == 2
\* number of rows of each status in the tables the paginated fetches read
MaxPerStatus == 4
\* highest page number requested from the paginated fetches
MaxPage == 3

(* ------------------------------ domains ------------------------------- *)
\* auth.users ids that may exist
Identities == {"u1", "u2"}
\* auth.uid() of a request that carries no session (SQL NULL)
NoUser == "none"
Callers == Identities \cup {NoUser}
\* user_roles.role is free text; 'admin' is the only label the code tests
Roles == {"admin", "member"}
\* CREATE TYPE public.application_status
application_status == {"pending", "approved", "rejected"}
\* membership_applications.amount values used as inputs
Amounts == {100}
\* the identity whose email the bootstrap migration names
BootstrapIdentity == "u1"
\* the email the bootstrap migration names, and the email of the other account
AdminEmail == "akashakash200243@gmail.com"
UserEmail == "user@example.com"
\* values typed into the email fields: empty, no address, an address with
\* surrounding blanks, and the two accounts' addresses
EmailInputs == {"", "not-an-email", " akashakash200243@gmail.com ", AdminEmail, UserEmail}
\* values typed into the password field; "secret" is both accounts' password
PasswordInputs == {"", "secret", "wrong"}

VARIABLES
    auth_users,               \* ids of the rows of auth.users
    profiles,                 \* rows of public.profiles
    membership_applications,  \* rows of public.membership_applications
    user_roles,               \* public.user_roles: how many rows hold each (user_id, role)
    lastOp,                   \* the request served by the last step and its reply
    session,                  \* the browser's current auth session (user id or NoUser)
    mounted,                  \* useAdminAuth's effect has run
    user, isAdmin, loading,   \* useAdminAuth's React state
    checks,                   \* the checkAdminStatus runs, in start order
    email, password, resetEmail, \* AdminLoginPage form state
    loginLoading,             \* AdminLoginPage's loading flag
    loginPc,                  \* position of the running handleLogin
    loginUser,                \* user returned by signInWithPassword
    loginRpc,                 \* what the is_admin call of handleLogin returned
    navigated,                \* navigate("/admin/dashboard") was called
    toast,                    \* title of the last toast shown
    resetPc,                  \* position of the running handleForgotPassword
    calls,                    \* backend requests issued by the login page
    submits,                  \* runs of handleLogin so far
    resets,                   \* runs of handleForgotPassword so far
    fetched,                  \* what the last paginated fetch was asked and returned
    cache,                    \* the entries of the query cache: a key and "fresh" or "invalid"
    mutation,                 \* the status mutation that has just settled, if any
    stats,                    \* the running and the last two settled fetchDashboardStats calls
    objects,                  \* first path folder -> the object stored under it in the bucket
    storageOp,                \* the last request served by the object store
    appsView,                 \* ApplicationsTable: page, statusFilter and the query's data
    membersView               \* MembersTable: page and the query's data

dbVars == <<auth_users, profiles, membership_applications, user_roles, lastOp>>
guardVars == <<mounted, user, isAdmin, loading, checks>>
loginVars == <<email, password, resetEmail, loginLoading, loginPc, loginUser, loginRpc,
               navigated, toast, resetPc, calls, submits, resets>>
storageVars == <<objects, storageOp>>
pageVars == <<appsView, membersView>>
adminVars == <<fetched, cache, mutation, stats, storageVars, pageVars>>
vars == <<auth_users, profiles, membership_applications, user_roles, lastOp,
          session, mounted, user, isAdmin, loading, checks,
          email, password, resetEmail, loginLoading, loginPc, loginUser, loginRpc,
          navigated, toast, resetPc, calls, submits, resets,
          fetched, cache, mutation, stats, objects, storageOp, appsView, membersView>>

(* ------------------------- schema and policies ------------------------ *)

\* the (user_id, role) values of the rows of public.user_roles; the columns
\* id and created_at are generated and never read
UserRoleRows ==
    {[user_id |-> k[1], role |-> k[2]] : k \in {q \in DOMAIN user_roles : user_roles[q] > 0}}

\* the role label is not compared
AdminGrantRows_AnyRole(check_user_id) ==
    {r \in UserRoleRows : r.user_id = check_user_id}

\* SELECT 1 FROM public.user_roles WHERE user_id = check_user_id AND role = 'admin'
AdminGrantRows(check_user_id) ==
    {r \in UserRoleRows : r.user_id = check_user_id /\ r.role = "admin"}

\* public.is_admin: RETURN EXISTS (...); SECURITY DEFINER, so it reads
\* user_roles without the caller's row-level restrictions
is_admin(check_user_id) == AdminGrantRows(check_user_id) # {}

\* "Users can view and update their own profile."  FOR ALL USING (auth.uid() = id)
ProfilesSelfPolicy(uid, row) == uid = row.id

\* "Admins can view all profiles."  FOR SELECT USING (is_admin(auth.uid()))
ProfilesAdminSelectPolicy(uid, row) == is_admin(uid)

\* USING (auth.uid() IS NOT NULL)
ApplicationsOwnerSelectPolicy_Authenticated(uid, row) == uid # NoUser

\* "Users can view their own applications."  FOR SELECT USING (auth.uid() = user_id)
ApplicationsOwnerSelectPolicy(uid, row) == uid = row.user_id

\* WITH CHECK (auth.uid() IS NOT NULL)
ApplicationsOwnerInsertPolicy_Authenticated(uid, row) == uid # NoUser

\* "Users can create their own applications."  FOR INSERT WITH CHECK (auth.uid() = user_id)
ApplicationsOwnerInsertPolicy(uid, row) == uid = row.user_id

\* USING (is_admin(user_id)): the row's owner is tested, not the caller
ApplicationsAdminPolicy_RowOwner(uid, row) == is_admin(row.user_id)

\* "Admins can manage all applications."  FOR ALL USING (is_admin(auth.uid()))
ApplicationsAdminPolicy(uid, row) == is_admin(uid)

\* USING (auth.uid() = user_id OR is_admin(auth.uid())): self-service grants
UserRolesAdminPolicy_Self(uid, row) == uid = row.user_id \/ is_admin(uid)

\* "Admins can manage all user roles."  FOR ALL USING (is_admin(auth.uid()))
UserRolesAdminPolicy(uid, row) == is_admin(uid)

\* Permissive policies that apply to one command on one table are OR-ed; a
\* FOR ALL policy applies to every command and its USING expression also
\* serves as its WITH CHECK expression.
ProfilesPolicy(cmd, uid, row) ==
    \/ ProfilesSelfPolicy(uid, row)
    \/ cmd = "select" /\ ProfilesAdminSelectPolicy(uid, row)

\* the owner's SELECT policy declared FOR ALL
ApplicationsPolicy_OwnerForAll(cmd, uid, row) ==
    \/ ApplicationsOwnerSelectPolicy(uid, row)
    \/ cmd = "insert" /\ ApplicationsOwnerInsertPolicy(uid, row)
    \/ ApplicationsAdminPolicy(uid, row)

ApplicationsPolicy(cmd, uid, row) ==
    \/ cmd = "select" /\ ApplicationsOwnerSelectPolicy(uid, row)
    \/ cmd = "insert" /\ ApplicationsOwnerInsertPolicy(uid, row)
    \/ ApplicationsAdminPolicy(uid, row)

UserRolesPolicy(cmd, uid, row) == UserRolesAdminPolicy(uid, row)

\* ALTER TABLE ... ENABLE ROW LEVEL SECURITY: each table under its own policies
Policy(table, cmd, uid, row) ==
    CASE table = "profiles" -> ProfilesPolicy(cmd, uid, row)
      [] table = "membership_applications" -> ApplicationsPolicy(cmd, uid, row)
      [] table = "user_roles" -> UserRolesPolicy(cmd, uid, row)

\* rows an UPDATE or DELETE with a WHERE clause may touch: they pass the
\* command's USING expression and the SELECT policies
Touchable(table, cmd, uid, rows) ==
    {r \in rows : Policy(table, cmd, uid, r) /\ Policy(table, "select", uid, r)}

\* gen_random_uuid(): an id no row of the table uses
FreshId(rows) == CHOOSE n \in 1..(Cardinality(rows) + 1) : \A r \in rows : r.id # n

\* a request and its reply: the command, the table or function, auth.uid(),
\* whether it was accepted, the rows a SELECT returned (for the removal of an
\* identity, the applications that went with it), the key it named
Op(op, table, uid, ok, rows, arg) ==
    [op |-> op, table |-> table, uid |-> uid, ok |-> ok, rows |-> rows, arg |-> arg]

NoOp == Op("none", "none", NoUser, TRUE, {}, NoUser)

(* ------------------- requests checked by the policies ------------------ *)

UNCHANGED_ui == UNCHANGED <<session, guardVars, loginVars, adminVars>>

SelectProfiles(uid) ==
    /\ lastOp' = Op("select", "profiles", uid, TRUE,
                    {r \in profiles : ProfilesPolicy("select", uid, r)}, NoUser)
    /\ UNCHANGED <<auth_users, profiles, membership_applications, user_roles>>
    /\ UNCHANGED_ui

SelectApplications(uid) ==
    /\ lastOp' = Op("select", "membership_applications", uid, TRUE,
                    {r \in membership_applications : ApplicationsPolicy("select", uid, r)},
                    NoUser)
    /\ UNCHANGED <<auth_users, profiles, membership_applications, user_roles>>
    /\ UNCHANGED_ui

SelectUserRoles(uid) ==
    /\ lastOp' = Op("select", "user_roles", uid, TRUE,
                    {r \in UserRoleRows : UserRolesPolicy("select", uid, r)}, NoUser)
    /\ UNCHANGED <<auth_users, profiles, membership_applications, user_roles>>
    /\ UNCHANGED_ui

\* no id is ever found in the primary-key index
ProfileKeyTaken_Never(id) == FALSE

\* PRIMARY KEY of profiles: a row with this id is already stored
ProfileKeyTaken(id) == \E p \in profiles : p.id = id

\* INSERT INTO profiles: primary key, foreign key to auth.users, WITH CHECK
InsertProfile(uid, id, full_name) ==
    LET row == [id |-> id, full_name |-> full_name]
        ok == /\ ProfilesPolicy("insert", uid, row)
              /\ id \in auth_users
              /\ ~ProfileKeyTaken(id)
    IN  /\ profiles' = IF ok THEN profiles \cup {row} ELSE profiles
        /\ lastOp' = Op("insert", "profiles", uid, ok, {}, id)
        /\ UNCHANGED <<auth_users, membership_applications, user_roles>>
        /\ UNCHANGED_ui

\* DELETE FROM profiles WHERE id = ...; applications go with it (ON DELETE CASCADE)
DeleteProfile(uid, id) ==
    LET hit == {r \in Touchable("profiles", "delete", uid, profiles) : r.id = id}
    IN  /\ profiles' = profiles \ hit
        /\ membership_applications' =
               {a \in membership_applications : \A p \in hit : a.user_id # p.id}
        /\ lastOp' = Op("delete", "profiles", uid, TRUE, {}, id)
        /\ UNCHANGED <<auth_users, user_roles>>
        /\ UNCHANGED_ui

\* INSERT INTO membership_applications: foreign key to profiles, WITH CHECK
InsertApplication(uid, owner, status, amount) ==
    LET row == [id |-> FreshId(membership_applications), user_id |-> owner,
                status |-> status, amount |-> amount]
        ok == /\ ApplicationsPolicy("insert", uid, row)
              /\ \E p \in profiles : p.id = owner
    IN  /\ Cardinality(membership_applications) < MaxApps
        /\ membership_applications' =
               IF ok THEN membership_applications \cup {row} ELSE membership_applications
        /\ lastOp' = Op("insert", "membership_applications", uid, ok, {}, owner)
        /\ UNCHANGED <<auth_users, profiles, user_roles>>
        /\ UNCHANGED_ui

\* .update({ status }).eq("id", id) as the database serves it
UpdateStatusRequest(uid, id, status) ==
    LET hit == {r \in Touchable("membership_applications", "update", uid, membership_applications) :
                   r.id = id}
        new(r) == [r EXCEPT !.status = status]
        ok == \A r \in hit : ApplicationsPolicy("update", uid, new(r))
    IN  /\ membership_applications' =
               IF ok THEN (membership_applications \ hit) \cup {new(r) : r \in hit}
               ELSE membership_applications
        /\ lastOp' = Op("update", "membership_applications", uid, ok, {}, id)
        /\ UNCHANGED <<auth_users, profiles, user_roles>>

\* updateApplicationStatus({ id, status }) called on its own
updateApplicationStatus(uid, id, status) ==
    /\ UpdateStatusRequest(uid, id, status)
    /\ UNCHANGED_ui

DeleteApplication(uid, id) ==
    LET hit == {r \in Touchable("membership_applications", "delete", uid, membership_applications) :
                   r.id = id}
    IN  /\ membership_applications' = membership_applications \ hit
        /\ lastOp' = Op("delete", "membership_applications", uid, TRUE, {}, id)
        /\ UNCHANGED <<auth_users, profiles, user_roles>>
        /\ UNCHANGED_ui

\* no pair is ever found in the unique index
RoleConflict_Never(user_id, role) == FALSE

\* UNIQUE(user_id, role): a row with this pair is already stored
RoleConflict(user_id, role) == user_roles[<<user_id, role>>] > 0

\* INSERT INTO user_roles: foreign key to auth.users, UNIQUE(user_id, role), WITH CHECK
InsertUserRole(uid, user_id, role) ==
    LET row == [user_id |-> user_id, role |-> role]
        ok == /\ UserRolesPolicy("insert", uid, row)
              /\ user_id \in auth_users
              /\ ~RoleConflict(user_id, role)
    IN  /\ user_roles' = IF ok THEN [user_roles EXCEPT ![<<user_id, role>>] = @ + 1]
                         ELSE user_roles
        /\ lastOp' = Op("insert", "user_roles", uid, ok, {}, user_id)
        /\ UNCHANGED <<auth_users, profiles, membership_applications>>
        /\ UNCHANGED_ui

\* UPDATE user_roles SET role = ... WHERE user_id = ... AND role = ...
UpdateUserRole(uid, user_id, old, role) ==
    LET hit == {r \in Touchable("user_roles", "update", uid, UserRoleRows) :
                   r.user_id = user_id /\ r.role = old}
        new(r) == [r EXCEPT !.role = role]
        ok == \A r \in hit :
                 /\ UserRolesPolicy("update", uid, new(r))
                 /\ role # old => ~RoleConflict(user_id, role)
    IN  /\ user_roles' = IF ok /\ hit # {} /\ role # old
                         THEN [user_roles EXCEPT ![<<user_id, old>>] = 0,
                                                 ![<<user_id, role>>] = user_roles[<<user_id, old>>]]
                         ELSE user_roles
        /\ lastOp' = Op("update", "user_roles", uid, ok, {}, user_id)
        /\ UNCHANGED <<auth_users, profiles, membership_applications>>
        /\ UNCHANGED_ui

\* DELETE FROM user_roles WHERE user_id = ... AND role = ...
DeleteUserRole(uid, user_id, role) ==
    LET hit == {r \in Touchable("user_roles", "delete", uid, UserRoleRows) :
                   r.user_id = user_id /\ r.role = role}
    IN  /\ user_roles' = IF hit # {} THEN [user_roles EXCEPT ![<<user_id, role>>] = 0]
                         ELSE user_roles
        /\ lastOp' = Op("delete", "user_roles", uid, TRUE, {}, user_id)
        /\ UNCHANGED <<auth_users, profiles, membership_applications>>
        /\ UNCHANGED_ui

\* supabase.rpc('is_admin', { check_user_id })
RpcIsAdmin(check_user_id) ==
    /\ lastOp' = Op("rpc", "is_admin", NoUser, is_admin(check_user_id), {}, check_user_id)
    /\ UNCHANGED <<auth_users, profiles, membership_applications, user_roles>>
    /\ UNCHANGED_ui

(* ------------- operations that are not subject to the policies --------- *)

\* sign-up at the auth service: a new row of auth.users
CreateIdentity(id) ==
    /\ id \notin auth_users
    /\ auth_users' = auth_users \cup {id}
    /\ lastOp' = Op("operator", "auth.users", NoUser, TRUE, {}, id)
    /\ UNCHANGED <<profiles, membership_applications, user_roles>>
    /\ UNCHANGED_ui

\* removal of an auth.users row: profiles and user_roles reference it with
\* ON DELETE CASCADE, membership_applications reference profiles likewise
DeleteIdentity(id) ==
    /\ id \in auth_users
    /\ auth_users' = auth_users \ {id}
    /\ profiles' = {p \in profiles : p.id # id}
    /\ membership_applications' = {a \in membership_applications : a.user_id # id}
    /\ user_roles' = [k \in DOMAIN user_roles |-> IF k[1] = id THEN 0 ELSE user_roles[k]]
    /\ lastOp' = Op("operator", "auth.users", NoUser, TRUE,
                    {a \in membership_applications : a.user_id = id}, id)
    /\ UNCHANGED_ui

\* the DO block of the add_admin_role migration
AssignAdminRole ==
    LET user_id_to_set == IF BootstrapIdentity \in auth_users THEN BootstrapIdentity
                          ELSE NoUser
        conflict == RoleConflict(user_id_to_set, "admin")
    IN  /\ user_roles' = IF user_id_to_set # NoUser /\ ~conflict
                         THEN [user_roles EXCEPT ![<<user_id_to_set, "admin">>] = @ + 1]
                         ELSE user_roles
        /\ lastOp' = Op("operator", "user_roles", NoUser, user_id_to_set # NoUser, {},
                        user_id_to_set)
        /\ UNCHANGED <<auth_users, profiles, membership_applications>>
        /\ UNCHANGED_ui

(* ------------------------------ database ------------------------------ *)

InitDb ==
    /\ auth_users = {}
    /\ profiles = {}
    /\ membership_applications = {}
    /\ user_roles = [k \in Identities \X Roles |-> 0]
    /\ lastOp = NoOp

InitGuard ==
    /\ mounted = FALSE
    /\ user = NoUser
    /\ isAdmin = FALSE
    /\ loading = TRUE
    /\ checks = <<>>

InitLogin ==
    /\ email = ""
    /\ password = ""
    /\ resetEmail = ""
    /\ loginLoading = FALSE
    /\ loginPc = "idle"
    /\ loginUser = NoUser
    /\ loginRpc = "none"
    /\ navigated = FALSE
    /\ toast = "none"
    /\ resetPc = "idle"
    /\ calls = <<>>
    /\ submits = 0
    /\ resets = 0

\* the query keys of the admin pages that the cache is followed for: two
\* pages of the applications list, one of the members list, the recent list
\* and the dashboard statistics
QueryKeys ==
    {<<"applications", 1, "all">>, <<"applications", 1, "pending">>,
     <<"members", 1>>, <<"recentApplications">>, <<"dashboardStats">>}

\* no mutation has just settled
NoMutation == [widget |-> "none"]

\* the writes noted between two fetchDashboardStats calls: how many (2 stands
\* for two or more) and, when it is one, which
NoWrites == [n |-> 0, w |-> <<>>]

\* no fetchDashboardStats call has run. result is the last value returned
\* and clean tells that no write fell into that call; between are the writes
\* since result; prev is the value returned before result and gap the writes
\* between the two, both kept only when no write fell into either call and
\* the writes between them were one approval of a pending application.
\* counted are the applications the running call counted as approved and
\* overlap tells that its pending count took one of them again; summed is
\* the number of rows whose amounts made the revenue of result, and twice
\* tells that the two counts of result shared an application
NoStats ==
    [calls |-> 0, pc |-> 0, totalMembers |-> 0, pendingApplications |-> 0,
     failed |-> FALSE, during |-> FALSE,
     counted |-> {}, overlap |-> FALSE,
     result |-> <<>>, clean |-> FALSE, prev |-> <<>>,
     gap |-> NoWrites, between |-> NoWrites,
     summed |-> 0, twice |-> FALSE]

\* no object is stored under a folder
NoObject == [size |-> 0, mime |-> "none", by |-> NoUser]

\* no request has reached the object store
NoStorageOp == [op |-> "none"]

\* the applications and members tables as first rendered: useState(1),
\* useState("all"), the query of the first key sent and no data yet (data
\* is <<>> for undefined and <<count>> for { applications, count })
InitPages ==
    /\ appsView = [page |-> 1, statusFilter |-> "all", data |-> <<>>, pending |-> TRUE]
    /\ membersView = [page |-> 1, data |-> <<>>, pending |-> TRUE]

\* the admin pages before any query has run
InitAdmin ==
    /\ objects = [f \in Identities |-> NoObject]
    /\ storageOp = NoStorageOp
    /\ InitPages
    /\ stats = NoStats
    /\ fetched = [fn |-> "none"]
    /\ cache = {}
    /\ mutation = NoMutation

Init ==
    /\ InitDb
    /\ session = NoUser
    /\ InitGuard
    /\ InitLogin
    /\ InitAdmin

Next ==
    \/ \E uid \in Callers : SelectProfiles(uid)
    \/ \E uid \in Callers : SelectApplications(uid)
    \/ \E uid \in Callers : SelectUserRoles(uid)
    \/ \E uid \in Callers, id \in Identities : InsertProfile(uid, id, "Asha")
    \/ \E uid \in Callers, id \in Identities : DeleteProfile(uid, id)
    \/ \E uid \in Callers, owner \in Identities, status \in application_status,
          amount \in Amounts : InsertApplication(uid, owner, status, amount)
    \/ \E uid \in Callers, id \in 1..MaxApps, status \in application_status :
          updateApplicationStatus(uid, id, status)
    \/ \E uid \in Callers, id \in 1..MaxApps : DeleteApplication(uid, id)
    \/ \E uid \in Callers, id \in Identities, role \in Roles : InsertUserRole(uid, id, role)
    \/ \E uid \in Callers, id \in Identities, old \in Roles, role \in Roles :
          UpdateUserRole(uid, id, old, role)
    \/ \E uid \in Callers, id \in Identities, role \in Roles : DeleteUserRole(uid, id, role)
    \/ \E id \in Identities : RpcIsAdmin(id)
    \/ \E id \in Identities : CreateIdentity(id)
    \/ \E id \in Identities : DeleteIdentity(id)
    \/ AssignAdminRole

Spec == Init /\ [][Next]_vars

(* ------------------------ properties of the database ------------------- *)

Tables == <<auth_users, profiles, membership_applications, user_roles>>

\* the Role Grant table holds a row (i, 'admin')
HasAdminGrant(i) == <<i, "admin">> \in DOMAIN user_roles /\ user_roles[<<i, "admin">>] > 0

\* the identity that owns a row of profiles or membership_applications
RowOwner(table, r) == IF table = "profiles" THEN r.id ELSE r.user_id

TableRows(table) == IF table = "profiles" THEN profiles ELSE membership_applications

OwnedTables == {"profiles", "membership_applications"}

\* the last step served a request that the row-level policies checked
PolicyChecked(o) == o.op \in {"select", "insert", "update", "delete"}

\* C1: is_admin(I) returns true exactly when the Role Grant table holds a row
\* (I, 'admin'): false for an identity that does not exist and for one that
\* holds only grants with another role label; the call changes no table.
C1_IsAdminIffAdminGrant ==
    /\ [](lastOp.op = "rpc" =>
            /\ lastOp.ok = HasAdminGrant(lastOp.arg)
            /\ lastOp.arg \notin auth_users => ~lastOp.ok
            /\ user_roles[<<lastOp.arg, "admin">>] = 0 => ~lastOp.ok)
    /\ [][lastOp'.op = "rpc" => Tables' = Tables]_vars

\* is_admin answered false for an existing identity whose only grant is 'member'
C1_Witness ==
    /\ lastOp.op = "rpc"
    /\ lastOp.arg \in auth_users
    /\ user_roles[<<lastOp.arg, "member">>] > 0
    /\ ~lastOp.ok
    /\ \E i \in Identities : HasAdminGrant(i)

\* C2: a read of profiles or membership_applications by a session without an
\* admin grant succeeds and returns only rows owned by the session's identity.
C2_NonAdminReadsOnlyOwnRows ==
    (lastOp.op = "select" /\ lastOp.table \in OwnedTables /\ ~HasAdminGrant(lastOp.uid)) =>
        /\ lastOp.ok
        /\ \A r \in lastOp.rows : RowOwner(lastOp.table, r) = lastOp.uid
        /\ (\A r \in TableRows(lastOp.table) : RowOwner(lastOp.table, r) # lastOp.uid)
               => lastOp.rows = {}

\* a non-admin identity read the applications while another identity owned one
C2_Witness ==
    /\ lastOp.op = "select" /\ lastOp.table = "membership_applications"
    /\ lastOp.uid \in auth_users /\ ~HasAdminGrant(lastOp.uid)
    /\ \E r \in membership_applications : r.user_id # lastOp.uid /\ r \notin lastOp.rows

\* C3: a read of profiles or of membership_applications by a session with an
\* admin grant returns every row of the table.
C3_AdminReadsAllRows ==
    (lastOp.op = "select" /\ lastOp.table \in OwnedTables /\ HasAdminGrant(lastOp.uid)) =>
        lastOp.rows = TableRows(lastOp.table)

\* an admin read the applications and got a row owned by another identity
C3_Witness ==
    /\ lastOp.op = "select" /\ lastOp.table = "membership_applications"
    /\ HasAdminGrant(lastOp.uid)
    /\ \E r \in lastOp.rows : r.user_id # lastOp.uid /\ ~HasAdminGrant(r.user_id)

\* C4: a policy-checked request of a session without an admin grant never
\* changes user_roles, and its reads of user_roles return no row.
C4_NonAdminCannotTouchUserRoles ==
    /\ []((lastOp.op = "select" /\ lastOp.table = "user_roles"
              /\ ~HasAdminGrant(lastOp.uid)) => lastOp.rows = {})
    /\ [][(PolicyChecked(lastOp') /\ ~HasAdminGrant(lastOp'.uid)) =>
              user_roles' = user_roles]_vars

\* a signed-up identity without an admin grant asked to insert a grant for
\* itself while another identity was admin, and was refused
C4_Witness ==
    /\ lastOp.op = "insert" /\ lastOp.table = "user_roles"
    /\ lastOp.uid \in auth_users /\ lastOp.arg = lastOp.uid
    /\ ~lastOp.ok
    /\ ~HasAdminGrant(lastOp.uid)
    /\ \E i \in Identities : HasAdminGrant(i)

\* C5: the status of an application changes only in an update issued by a
\* session with an admin grant; an update by any other session, the owner's
\* included, leaves membership_applications unchanged.
C5_StatusChangesOnlyByAdminUpdate ==
    [][/\ (\E a \in membership_applications, b \in membership_applications' :
              a.id = b.id /\ a.status # b.status)
          => (lastOp'.op = "update" /\ lastOp'.table = "membership_applications"
                 /\ HasAdminGrant(lastOp'.uid))
       /\ (lastOp'.op = "update" /\ lastOp'.table = "membership_applications"
              /\ ~HasAdminGrant(lastOp'.uid))
          => membership_applications' = membership_applications]_vars

\* the owner of an application, not an admin, asked to update its status
C5_Witness ==
    /\ lastOp.op = "update" /\ lastOp.table = "membership_applications"
    /\ ~HasAdminGrant(lastOp.uid)
    /\ \E a \in membership_applications : a.id = lastOp.arg /\ a.user_id = lastOp.uid

\* C6: an insert into membership_applications by a session without an admin
\* grant is accepted only when the new row's owner is the session's identity;
\* naming another owner is rejected and leaves the table unchanged.
C6_NonAdminInsertsOnlyOwnApplication ==
    [][(lastOp'.op = "insert" /\ lastOp'.table = "membership_applications"
           /\ ~HasAdminGrant(lastOp'.uid) /\ lastOp'.arg # lastOp'.uid)
        => (~lastOp'.ok /\ membership_applications' = membership_applications)]_vars

\* a non-admin identity with a profile named another profile as the owner of
\* a new application and was refused
C6_Witness ==
    /\ lastOp.op = "insert" /\ lastOp.table = "membership_applications"
    /\ ~HasAdminGrant(lastOp.uid) /\ lastOp.arg # lastOp.uid
    /\ \E p \in profiles : p.id = lastOp.uid
    /\ \E p \in profiles : p.id = lastOp.arg
    /\ ~lastOp.ok

(* --------------------- admin route guard (useAdminAuth) ---------------- *)

UNCHANGED_db == UNCHANGED <<dbVars, adminVars>>

\* a run of checkAdminStatus: where it waits, the session user it found, what
\* the is_admin call returned, and whether it overlapped no other run so far
Check(pc, uid, reply, alone) == [pc |-> pc, uid |-> uid, reply |-> reply, alone |-> alone]

InFlight == {c \in DOMAIN checks : checks[c].pc # "done"}

\* checkAdminStatus up to its first await: setLoading(true); getSession()
StartCheck ==
    /\ checks' = [c \in 1..(Len(checks) + 1) |->
                     IF c <= Len(checks)
                     THEN [checks[c] EXCEPT !.alone = @ /\ checks[c].pc = "done"]
                     ELSE Check("getSession", NoUser, "none", InFlight = {})]
    /\ loading' = TRUE

\* useEffect(..., []): checkAdminStatus(); onAuthStateChange(callback)
Mount ==
    /\ ~mounted
    /\ mounted' = TRUE
    /\ StartCheck
    /\ UNCHANGED <<user, isAdmin, session>>
    /\ UNCHANGED loginVars
    /\ UNCHANGED_db

\* the auth state changes (SIGNED_IN for u, SIGNED_OUT, TOKEN_REFRESHED); a
\* mounted guard runs its callback: setUser(session?.user ?? null); checkAdminStatus()
AuthStateChange(newSession) ==
    /\ newSession # NoUser => newSession \in auth_users
    /\ session' = newSession
    /\ IF mounted
       THEN /\ Len(checks) < MaxChecks
            /\ user' = newSession
            /\ StartCheck
       ELSE /\ session # newSession
            /\ UNCHANGED <<user, loading, checks>>
    /\ UNCHANGED <<mounted, isAdmin>>
    /\ UNCHANGED loginVars
    /\ UNCHANGED_db

\* const { data: { session } } = await supabase.auth.getSession() resolves:
\* with the stored session, or with an error and data.session null (the
\* error field is not read)
GetSessionResolves(c, error) ==
    /\ c \in DOMAIN checks
    /\ checks[c].pc = "getSession"
    /\ IF ~error /\ session # NoUser
       THEN /\ user' = session
            /\ checks' = [checks EXCEPT ![c].pc = "rpc", ![c].uid = session]
            /\ UNCHANGED <<isAdmin, loading>>
       ELSE /\ isAdmin' = FALSE
            /\ loading' = FALSE
            /\ checks' = [checks EXCEPT ![c].pc = "done"]
            /\ UNCHANGED user
    /\ UNCHANGED <<mounted, session>>
    /\ UNCHANGED loginVars
    /\ UNCHANGED_db

\* the catch block closes the gate on any error of the call
AdminFromReply_FailOpen(data, error) == IF error THEN TRUE ELSE data

\* if (error) throw error; setIsAdmin(data); catch: setIsAdmin(false)
AdminFromReply(data, error) == IF error THEN FALSE ELSE data

\* setLoading(false) is reached only when the call returned no error
RpcResolves_LoadingStuckOnError(c, error) ==
    /\ c \in DOMAIN checks
    /\ checks[c].pc = "rpc"
    /\ LET data == ~error /\ is_admin(checks[c].uid)
       IN  /\ isAdmin' = AdminFromReply(data, error)
           /\ checks' = [checks EXCEPT ![c].pc = "done",
                            ![c].reply = IF error THEN "error"
                                         ELSE IF data THEN "true" ELSE "false"]
    /\ loading' = IF error THEN loading ELSE FALSE
    /\ UNCHANGED <<mounted, user, session>>
    /\ UNCHANGED loginVars
    /\ UNCHANGED_db

\* await supabase.rpc('is_admin', { check_user_id: session.user.id }) resolves
RpcResolves(c, error) ==
    /\ c \in DOMAIN checks
    /\ checks[c].pc = "rpc"
    /\ LET data == ~error /\ is_admin(checks[c].uid)
       IN  /\ isAdmin' = AdminFromReply(data, error)
           /\ checks' = [checks EXCEPT ![c].pc = "done",
                            ![c].reply = IF error THEN "error"
                                         ELSE IF data THEN "true" ELSE "false"]
    /\ loading' = FALSE
    /\ UNCHANGED <<mounted, user, session>>
    /\ UNCHANGED loginVars
    /\ UNCHANGED_db

\* AdminProtectedRoute: spinner while loading, else redirect unless isAdmin
AdminProtectedRoute ==
    IF loading THEN "spinner" ELSE IF ~isAdmin THEN "redirect" ELSE "outlet"

\* a database in which both identities signed up and the bootstrap migration ran
InitSeeded ==
    /\ auth_users = Identities
    /\ profiles = {}
    /\ membership_applications = {}
    /\ user_roles = [k \in Identities \X Roles |->
                        IF k = <<BootstrapIdentity, "admin">> THEN 1 ELSE 0]
    /\ lastOp = NoOp

InitGuardSpec ==
    /\ InitSeeded
    /\ session = NoUser
    /\ InitGuard
    /\ InitLogin
    /\ InitAdmin

NextGuard ==
    \/ Mount
    \/ \E s \in Callers : AuthStateChange(s)
    \/ \E c \in 1..MaxChecks, error \in BOOLEAN : GetSessionResolves(c, error)
    \/ \E c \in 1..MaxChecks, error \in BOOLEAN : RpcResolves(c, error)

SpecGuard == InitGuardSpec /\ [][NextGuard]_vars

(* ------------------------ properties of the guard ---------------------- *)

\* what the spec's state machine prescribes for a run: authorized exactly
\* when a session was found and is_admin returned true without error
Prescribed(ch) == IF ch.uid # NoUser /\ ch.reply = "true" THEN "outlet" ELSE "redirect"

\* C7: a run of the check that overlaps no other run shows the loading
\* indicator while it is in flight and ends with the protected subtree
\* rendered iff a session exists and is_admin returned true without error;
\* with no session, a false result or an error it ends with the redirect.
C7_SingleCheckOutcome ==
    /\ [](\A c \in DOMAIN checks :
            (checks[c].pc # "done" /\ checks[c].alone) => AdminProtectedRoute = "spinner")
    /\ [][\A c \in DOMAIN checks :
            (checks[c].pc # "done" /\ checks'[c].pc = "done" /\ checks'[c].alone)
                => AdminProtectedRoute' = Prescribed(checks'[c])]_vars

\* a run that overlapped no other run found a session, got true, and the
\* protected subtree is rendered
C7_Witness ==
    /\ Len(checks) = 2
    /\ checks[2].pc = "done" /\ checks[2].alone /\ checks[2].reply = "true"
    /\ AdminProtectedRoute = "outlet"

\* C8 (as claimed): once every started check has completed, the guard shows
\* the outcome of the most recently started check, whatever the order in
\* which the replies arrived.
C8_LastStartedCheckWins ==
    (checks # <<>> /\ InFlight = {}) =>
        AdminProtectedRoute = Prescribed(checks[Len(checks)])

\* C20: whenever at least one check is in flight, loading is true and the
\* guard shows the spinner, neither the protected subtree nor the redirect,
\* for every interleaving of overlapping checks.
C20_LoadingWhileAnyCheckInFlight ==
    InFlight # {} => (loading /\ AdminProtectedRoute = "spinner")

\* the guard with its scheduling: the effect runs after the first render and
\* every backend call that was sent is answered
SpecGuardFair ==
    /\ SpecGuard
    /\ WF_vars(Mount)
    /\ \A c \in 1..MaxChecks :
          /\ WF_vars(\E error \in BOOLEAN : GetSessionResolves(c, error))
          /\ WF_vars(\E error \in BOOLEAN : RpcResolves(c, error))

\* C21: provided every getSession and is_admin call is answered, with a result
\* or an error, every check that was started completes and a guard showing
\* the loading indicator comes to show the protected subtree or the redirect.
C21_GuardLeavesChecking ==
    /\ \A c \in 1..MaxChecks :
          (c \in InFlight) ~> (c \in DOMAIN checks /\ checks[c].pc = "done")
    /\ (AdminProtectedRoute = "spinner") ~> (AdminProtectedRoute \in {"outlet", "redirect"})

\* a check whose is_admin call failed has completed and the guard shows the
\* redirect
C21_Witness ==
    /\ \E c \in DOMAIN checks : checks[c].pc = "done" /\ checks[c].reply = "error"
    /\ InFlight = {}
    /\ AdminProtectedRoute = "redirect"


(* --------------------------- admin login page -------------------------- *)

\* z.string().email(): the whole string is one address, blanks are not removed
IsEmail(e) == e \in {AdminEmail, UserEmail}

\* String.prototype.trim()
Trim(e) == IF e = " akashakash200243@gmail.com " THEN AdminEmail ELSE e

\* the password is not required
LoginInputValid_NoPassword(e, p) == IsEmail(e)

\* loginSchema.safeParse({ email, password }).success
LoginInputValid(e, p) == IsEmail(e) /\ p # ""

\* the auth.users row that signs in with an email and a password
Account(e, p) ==
    IF p # "secret" THEN NoUser
    ELSE IF e = AdminEmail /\ "u1" \in auth_users THEN "u1"
    ELSE IF e = UserEmail /\ "u2" \in auth_users THEN "u2"
    ELSE NoUser

UNCHANGED_guard == UNCHANGED guardVars

\* onChange of the email and password inputs (disabled while loading)
setEmail(v) ==
    /\ ~loginLoading /\ ~navigated
    /\ email' = v
    /\ UNCHANGED <<password, resetEmail, loginLoading, loginPc, loginUser, loginRpc,
                   navigated, toast, resetPc, calls, submits, resets, session>>
    /\ UNCHANGED_guard /\ UNCHANGED_db

setPassword(v) ==
    /\ ~loginLoading /\ ~navigated
    /\ password' = v
    /\ UNCHANGED <<email, resetEmail, loginLoading, loginPc, loginUser, loginRpc,
                   navigated, toast, resetPc, calls, submits, resets, session>>
    /\ UNCHANGED_guard /\ UNCHANGED_db

\* onChange of the reset dialog's input
setResetEmail(v) ==
    /\ resetPc = "idle" /\ ~navigated
    /\ resetEmail' = v
    /\ UNCHANGED <<email, password, loginLoading, loginPc, loginUser, loginRpc,
                   navigated, toast, resetPc, calls, submits, resets, session>>
    /\ UNCHANGED_guard /\ UNCHANGED_db

\* handleLogin up to its first await: setLoading(true), validation, and
\* either the "Invalid input" return or the signInWithPassword request
handleLogin ==
    /\ loginPc = "idle" /\ ~loginLoading /\ ~navigated
    /\ submits < MaxSubmits
    /\ submits' = submits + 1
    /\ loginUser' = NoUser
    /\ loginRpc' = "none"
    /\ IF ~LoginInputValid(email, password)
       THEN /\ toast' = "Invalid input"
            /\ loginLoading' = FALSE
            /\ UNCHANGED <<loginPc, calls>>
       ELSE /\ calls' = Append(calls, "signInWithPassword")
            /\ loginLoading' = TRUE
            /\ loginPc' = "signIn"
            /\ UNCHANGED toast
    /\ UNCHANGED <<email, password, resetEmail, navigated, resetPc, resets, session>>
    /\ UNCHANGED_guard /\ UNCHANGED_db

\* signInWithPassword({ email: email.trim(), password }) resolves: with an
\* error (bad credentials, network), or with the user and a new session
SignInResolves(error) ==
    /\ loginPc = "signIn"
    /\ LET u == Account(Trim(email), password)
       IN  IF error \/ u = NoUser
           THEN /\ toast' = "Login failed"
                /\ loginLoading' = FALSE
                /\ loginPc' = "idle"
                /\ UNCHANGED <<session, loginUser, calls>>
           ELSE /\ session' = u
                /\ loginUser' = u
                /\ calls' = Append(calls, "is_admin")
                /\ loginPc' = "rpc"
                /\ UNCHANGED <<toast, loginLoading>>
    /\ UNCHANGED <<email, password, resetEmail, loginRpc, navigated, resetPc, submits, resets>>
    /\ UNCHANGED_guard /\ UNCHANGED_db

\* supabase.rpc('is_admin', { check_user_id: user.id }) resolves
LoginRpcResolves(error) ==
    /\ loginPc = "rpc"
    /\ LET data == ~error /\ is_admin(loginUser)
       IN  /\ loginRpc' = IF error THEN "error" ELSE IF data THEN "true" ELSE "false"
           /\ IF error
              THEN \* if (rpcError) throw rpcError; catch; finally
                   /\ toast' = "Login failed"
                   /\ loginLoading' = FALSE
                   /\ loginPc' = "idle"
                   /\ UNCHANGED <<navigated, calls>>
              ELSE IF data
              THEN /\ toast' = "Welcome, Admin!"
                   /\ navigated' = TRUE
                   /\ loginLoading' = FALSE
                   /\ loginPc' = "idle"
                   /\ UNCHANGED calls
              ELSE /\ calls' = Append(calls, "signOut")
                   /\ loginPc' = "signOut"
                   /\ UNCHANGED <<toast, navigated, loginLoading>>
    /\ UNCHANGED <<email, password, resetEmail, loginUser, resetPc, submits, resets, session>>
    /\ UNCHANGED_guard /\ UNCHANGED_db

\* await supabase.auth.signOut() resolves; "Access Denied"; finally
SignOutResolves ==
    /\ loginPc = "signOut"
    /\ session' = NoUser
    /\ toast' = "Access Denied"
    /\ loginLoading' = FALSE
    /\ loginPc' = "idle"
    /\ UNCHANGED <<email, password, resetEmail, loginUser, loginRpc, navigated, resetPc,
                   calls, submits, resets>>
    /\ UNCHANGED_guard /\ UNCHANGED_db

\* handleForgotPassword up to its await: validation, and either the
\* "Invalid Email" return or the resetPasswordForEmail request
handleForgotPassword ==
    /\ resetPc = "idle" /\ ~navigated
    /\ resets < MaxSubmits
    /\ resets' = resets + 1
    /\ IF ~IsEmail(resetEmail)
       THEN /\ toast' = "Invalid Email"
            /\ UNCHANGED <<resetPc, calls>>
       ELSE /\ calls' = Append(calls, "resetPasswordForEmail")
            /\ resetPc' = "reset"
            /\ UNCHANGED toast
    /\ UNCHANGED <<email, password, resetEmail, loginLoading, loginPc, loginUser, loginRpc,
                   navigated, submits, session>>
    /\ UNCHANGED_guard /\ UNCHANGED_db

\* resetPasswordForEmail(resetEmail.trim(), ...) resolves
ResetResolves(error) ==
    /\ resetPc = "reset"
    /\ resetPc' = "idle"
    /\ IF error
       THEN /\ toast' = "Reset Failed"
            /\ UNCHANGED resetEmail
       ELSE /\ toast' = "Reset Link Sent"
            /\ resetEmail' = ""
    /\ UNCHANGED <<email, password, loginLoading, loginPc, loginUser, loginRpc,
                   navigated, calls, submits, resets, session>>
    /\ UNCHANGED_guard /\ UNCHANGED_db

InitLoginSpec ==
    /\ InitSeeded
    /\ session = NoUser
    /\ InitGuard
    /\ InitLogin
    /\ InitAdmin

NextLogin ==
    \/ \E v \in EmailInputs : setEmail(v)
    \/ \E v \in PasswordInputs : setPassword(v)
    \/ \E v \in EmailInputs : setResetEmail(v)
    \/ handleLogin
    \/ \E error \in BOOLEAN : SignInResolves(error)
    \/ \E error \in BOOLEAN : LoginRpcResolves(error)
    \/ SignOutResolves
    \/ handleForgotPassword
    \/ \E error \in BOOLEAN : ResetResolves(error)

SpecLogin == InitLoginSpec /\ [][NextLogin]_vars

(* ---------------------- properties of the login page ------------------- *)

\* handleLogin has returned from a run in which sign-in returned a user
LoginFinishedWithUser == loginPc = "idle" /\ loginUser # NoUser

\* C9 (as claimed): after handleLogin finishes for accepted credentials, a
\* live session remains only if is_admin returned true; after a false result
\* or an error the session has been ended and nothing navigated.
C9_SessionOnlyForConfirmedAdmin ==
    LoginFinishedWithUser =>
        /\ session # NoUser => loginRpc = "true"
        /\ loginRpc # "true" => ~navigated

\* C10: with a malformed email or an empty password handleLogin issues no
\* backend request, creates no session, reports the failure and leaves the
\* loading flag false; with a malformed reset email handleForgotPassword
\* issues no backend request and reports the failure.
C10_ValidationBeforeAnyRequest ==
    [][/\ (submits' # submits /\ (~IsEmail(email) \/ password = ""))
          => /\ calls' = calls
             /\ session' = session
             /\ toast' = "Invalid input"
             /\ loginLoading' = FALSE
       /\ (resets' # resets /\ ~IsEmail(resetEmail))
          => /\ calls' = calls
             /\ session' = session
             /\ toast' = "Invalid Email"]_vars

\* handleLogin has just refused a well-formed email with an empty password
C10_Witness ==
    /\ toast = "Invalid input"
    /\ submits = 1 /\ resets = 0
    /\ IsEmail(email) /\ password = ""
    /\ calls = <<>> /\ ~loginLoading /\ session = NoUser

(* ----------------------- paginated data-access functions --------------- *)

\* const ITEMS_PER_PAGE = 10
ITEMS_PER_PAGE == 10

\* SQL NULL in the status column, which is not declared NOT NULL
Null == "null"

\* values of the status filter tabs
StatusFilters == {"all", "pending", "approved", "rejected"}

\* const from = (page - 1) * ITEMS_PER_PAGE
RangeFrom(page) == (page - 1) * ITEMS_PER_PAGE

\* the window is one row too long
RangeTo_OneTooMany(page) == RangeFrom(page) + ITEMS_PER_PAGE

\* const to = from + ITEMS_PER_PAGE - 1
RangeTo(page) == RangeFrom(page) + ITEMS_PER_PAGE - 1

\* .order("created_at", { ascending: false }): created_at defaults to now(),
\* and the rows this is applied to are numbered in creation order
RECURSIVE OrderDesc(_)
OrderDesc(rows) ==
    IF rows = {} THEN <<>>
    ELSE LET newest == CHOOSE r \in rows : \A o \in rows : o.id <= r.id
         IN  <<newest>> \o OrderDesc(rows \ {newest})

\* .range(from, to): the zero-indexed inclusive window of an ordered result
Window(ordered, from, to) ==
    IF from < 0 THEN <<>>
    ELSE SubSeq(ordered, from + 1, IF to + 1 <= Len(ordered) THEN to + 1 ELSE Len(ordered))

\* a SELECT with an optional .eq("status", status), under the caller's policies
Matching(uid, status) ==
    {r \in membership_applications :
        /\ ApplicationsPolicy("select", uid, r)
        /\ status # "all" => r.status = status}

\* fetchApplications({ page, status }): one request for the exact count and
\* the window, newest first
FetchApplications(uid, page, status) ==
    LET ordered == OrderDesc(Matching(uid, status))
    IN  [fn |-> "fetchApplications", page |-> page, status |-> status,
         range |-> <<RangeFrom(page), RangeTo(page)>>,
         rows |-> Window(ordered, RangeFrom(page), RangeTo(page)),
         count |-> Len(ordered)]

\* fetchMembers({ page }): the same request with .eq("status", "approved")
FetchMembers(uid, page) ==
    LET ordered == OrderDesc(Matching(uid, "approved"))
    IN  [fn |-> "fetchMembers", page |-> page, status |-> "approved",
         range |-> <<RangeFrom(page), RangeTo(page)>>,
         rows |-> Window(ordered, RangeFrom(page), RangeTo(page)),
         count |-> Len(ordered)]

fetchApplications(page, status) ==
    /\ fetched' = FetchApplications(session, page, status)
    /\ UNCHANGED <<dbVars, session, guardVars, loginVars, storageVars, pageVars, cache, mutation, stats>>

fetchMembers(page) ==
    /\ fetched' = FetchMembers(session, page)
    /\ UNCHANGED <<dbVars, session, guardVars, loginVars, storageVars, pageVars, cache, mutation, stats>>

\* a table of nP pending, nA approved and nR rejected applications, numbered
\* in creation order, owned in turn by the two profiles
ApplicationsTable(nP, nA, nR) ==
    {[id |-> i,
      user_id |-> IF i % 2 = 1 THEN "u1" ELSE "u2",
      status |-> IF i <= nP THEN "pending" ELSE IF i <= nP + nA THEN "approved"
                 ELSE "rejected",
      amount |-> 100 + 50 * (i % 3)] : i \in 1..(nP + nA + nR)}

\* both identities signed up and have a profile, the bootstrap migration ran,
\* the admin is signed in and the applications table holds some rows
InitFetch ==
    /\ auth_users = Identities
    /\ profiles = {[id |-> i, full_name |-> "Asha"] : i \in Identities}
    /\ \E nP \in 0..MaxPerStatus, nA \in 0..MaxPerStatus, nR \in 0..MaxPerStatus :
          membership_applications = ApplicationsTable(nP, nA, nR)
    /\ user_roles = [k \in Identities \X Roles |->
                        IF k = <<BootstrapIdentity, "admin">> THEN 1 ELSE 0]
    /\ lastOp = NoOp
    /\ session = BootstrapIdentity
    /\ InitGuard
    /\ InitLogin
    /\ InitAdmin

NextFetch ==
    \/ \E page \in 1..MaxPage, status \in StatusFilters : fetchApplications(page, status)
    \/ \E page \in 1..MaxPage : fetchMembers(page)

SpecFetch == InitFetch /\ [][NextFetch]_vars

(* -------------------- properties of the paginated fetches -------------- *)

Min(a, b) == IF a <= b THEN a ELSE b

Max(a, b) == IF a >= b THEN a ELSE b

\* the number of rows of the table with the status a filter names
RowsWithStatus(status) ==
    Cardinality({r \in membership_applications : status = "all" \/ r.status = status})

StatusInputs == application_status \cup {Null}

\* both identities have a profile, the bootstrap migration ran, the admin is
\* signed in and no application exists yet
InitCounts ==
    /\ auth_users = Identities
    /\ profiles = {[id |-> i, full_name |-> "Asha"] : i \in Identities}
    /\ membership_applications = {}
    /\ user_roles = [k \in Identities \X Roles |->
                        IF k = <<BootstrapIdentity, "admin">> THEN 1 ELSE 0]
    /\ lastOp = NoOp
    /\ session = BootstrapIdentity
    /\ InitGuard
    /\ InitLogin
    /\ InitAdmin

NextCounts ==
    \/ \E uid \in Identities, owner \in Identities, status \in StatusInputs,
          amount \in Amounts : InsertApplication(uid, owner, status, amount)
    \/ \E uid \in Identities, id \in 1..MaxApps, status \in application_status :
          updateApplicationStatus(uid, id, status)
    \/ \E page \in 1..MaxPage, status \in StatusFilters : fetchApplications(page, status)

SpecCounts == InitCounts /\ [][NextCounts]_vars

\* the count fetchApplications returns to the signed-in caller for a filter
CountFor(status) == FetchApplications(session, 1, status).count

\* C12: the count fetchApplications returns for the filter 'all' is the sum
\* of the counts it returns for 'pending', 'approved' and 'rejected'.
C12_AllIsSumOfStatuses ==
    CountFor("all") = CountFor("pending") + CountFor("approved") + CountFor("rejected")

(* ------------------------ query cache and mutations -------------------- *)

\* queryClient.invalidateQueries({ queryKey }): every cached entry whose key
\* starts with queryKey is marked invalid
InvalidateQueries(c, queryKey) ==
    {IF /\ Len(e.key) >= Len(queryKey)
        /\ SubSeq(e.key, 1, Len(queryKey)) = queryKey
     THEN [e EXCEPT !.state = "invalid"] ELSE e : e \in c}

\* useQuery({ queryKey, queryFn }) fetches and stores a fresh entry; the
\* cache is followed by the state of each entry, not by its data
RunQuery(key) ==
    /\ cache' = {e \in cache : e.key # key} \cup {[key |-> key, state |-> "fresh"]}
    /\ mutation' = NoMutation
    /\ UNCHANGED <<dbVars, session, guardVars, loginVars, storageVars, pageVars, fetched, stats>>

\* a useMutation of updateApplicationStatus settling: on a transport error
\* (error) or an error reply the request throws and onError only toasts;
\* otherwise onSuccess invalidates the given keys
Mutate(widget, keys, id, status, error) ==
    /\ IF error THEN UNCHANGED dbVars ELSE UpdateStatusRequest(session, id, status)
    /\ LET ok == ~error /\ lastOp'.ok
       IN  /\ cache' = IF ok THEN InvalidateQueries(InvalidateQueries(cache, keys[1]), keys[2])
                       ELSE cache
           /\ mutation' = [widget |-> widget, ok |-> ok, before |-> cache]
    /\ UNCHANGED <<session, guardVars, loginVars, storageVars, pageVars, fetched, stats>>

\* ApplicationsTable: mutation.mutate({ id, status }) from a row's menu
ApplicationsTableMutation(id, status, error) ==
    Mutate("ApplicationsTable", <<(<<"applications">>), (<<"dashboardStats">>)>>,
           id, status, error)

\* RecentApplicationsTable: mutation.mutate({ id, status }) from a row's menu
RecentApplicationsTableMutation(id, status, error) ==
    Mutate("RecentApplicationsTable", <<(<<"recentApplications">>), (<<"dashboardStats">>)>>,
           id, status, error)

\* the admin is signed in and one pending and one approved application exist
InitCache ==
    /\ auth_users = Identities
    /\ profiles = {[id |-> i, full_name |-> "Asha"] : i \in Identities}
    /\ membership_applications = ApplicationsTable(1, 1, 0)
    /\ user_roles = [k \in Identities \X Roles |->
                        IF k = <<BootstrapIdentity, "admin">> THEN 1 ELSE 0]
    /\ lastOp = NoOp
    /\ session = BootstrapIdentity
    /\ InitGuard
    /\ InitLogin
    /\ InitAdmin

NextCache ==
    \/ \E key \in QueryKeys : RunQuery(key)
    \/ \E id \in 1..2, status \in application_status, error \in BOOLEAN :
          ApplicationsTableMutation(id, status, error)
    \/ \E id \in 1..2, status \in application_status, error \in BOOLEAN :
          RecentApplicationsTableMutation(id, status, error)

SpecCache == InitCache /\ [][NextCache]_vars

\* C13: once a status mutation from either widget has succeeded, no cached
\* query that depends on the applications table (dashboard counts, pages of
\* the applications list, recent list, pages of the members list) is still
\* fresh; a mutation that failed has left the cache as it was.
C13_MutationInvalidatesDependents ==
    /\ (mutation.widget # "none" /\ mutation.ok) =>
           \A e \in cache : e.state # "fresh"
    /\ (mutation.widget # "none" /\ ~mutation.ok) => cache = mutation.before

(* --------------------------- dashboard statistics ---------------------- *)

\* revenueData?.reduce((sum, item) => sum + item.amount, 0) || 0
RECURSIVE totalRevenue(_)
totalRevenue(revenueData) ==
    IF revenueData = <<>> THEN 0
    ELSE revenueData[1] + totalRevenue(Tail(revenueData))

\* the amount column of an ordered result
RECURSIVE AmountsOf(_)
AmountsOf(ordered) ==
    IF ordered = <<>> THEN <<>>
    ELSE <<ordered[1].amount>> \o AmountsOf(Tail(ordered))

\* fetchDashboardStats is called: nothing has been awaited yet
StatsStart ==
    /\ stats.pc = 0
    /\ stats.calls < MaxCalls
    /\ stats' = [stats EXCEPT !.calls = @ + 1, !.pc = 1]
    /\ UNCHANGED <<dbVars, session, guardVars, loginVars, storageVars, pageVars, fetched, cache, mutation>>

\* first await: the exact count of approved rows (head request)
StatsMembersResolves(error) ==
    /\ stats.pc = 1
    /\ stats' = [stats EXCEPT !.pc = 2,
                              !.totalMembers = Cardinality(Matching(session, "approved")),
                              !.counted = {r.id : r \in Matching(session, "approved")},
                              !.failed = error]
    /\ UNCHANGED <<dbVars, session, guardVars, loginVars, storageVars, pageVars, fetched, cache, mutation>>

\* the pending count is taken without the status predicate
StatsPendingResolves_CountsAll(error) ==
    /\ stats.pc = 2
    /\ stats' = [stats EXCEPT !.pc = 3,
                              !.pendingApplications = Cardinality(Matching(session, "all")),
                              !.counted = {},
                              !.overlap = \E r \in Matching(session, "all") :
                                             r.id \in stats.counted,
                              !.failed = stats.failed \/ error]
    /\ UNCHANGED <<dbVars, session, guardVars, loginVars, storageVars, pageVars, fetched, cache, mutation>>

\* second await: the exact count of pending rows (head request)
StatsPendingResolves(error) ==
    /\ stats.pc = 2
    /\ stats' = [stats EXCEPT !.pc = 3,
                              !.pendingApplications = Cardinality(Matching(session, "pending")),
                              !.counted = {},
                              !.overlap = \E r \in Matching(session, "pending") :
                                             r.id \in stats.counted,
                              !.failed = stats.failed \/ error]
    /\ UNCHANGED <<dbVars, session, guardVars, loginVars, storageVars, pageVars, fetched, cache, mutation>>

\* the call about to return and the one before it saw no write, and one
\* approval of a pending application was written between them
StatsAroundOneApproval ==
    /\ stats.result # <<>> /\ stats.clean /\ ~stats.during
    /\ stats.between.n = 1 /\ stats.between.w[1].approval

\* third await: the amounts of the approved rows; then either throw or
\* return { totalMembers, pendingApplications, totalRevenue, upcomingEvents }
StatsRevenueResolves(error) ==
    /\ stats.pc = 3
    /\ LET revenueData == AmountsOf(OrderDesc(Matching(session, "approved")))
       IN  IF stats.failed \/ error
           THEN stats' = [stats EXCEPT !.pc = 0, !.totalMembers = 0,
                                       !.pendingApplications = 0,
                                       !.failed = FALSE, !.during = FALSE,
                                       !.overlap = FALSE,
                                       !.between = IF stats.during
                                                   THEN [n |-> 2, w |-> <<>>] ELSE @]
           ELSE stats' = [stats EXCEPT
                    !.pc = 0, !.totalMembers = 0, !.pendingApplications = 0,
                    !.failed = FALSE, !.during = FALSE, !.overlap = FALSE,
                    !.summed = Len(revenueData), !.twice = stats.overlap,
                    !.result = <<[totalMembers |-> stats.totalMembers,
                                  pendingApplications |-> stats.pendingApplications,
                                  totalRevenue |-> totalRevenue(revenueData),
                                  upcomingEvents |-> 4]>>,
                    !.clean = ~stats.during,
                    !.prev = IF StatsAroundOneApproval THEN stats.result ELSE <<>>,
                    !.gap = IF StatsAroundOneApproval THEN stats.between ELSE NoWrites,
                    !.between = NoWrites]
    /\ UNCHANGED <<dbVars, session, guardVars, loginVars, storageVars, pageVars, fetched, cache, mutation>>

\* updateApplicationStatus by an admin session while the dashboard is open;
\* a write that reached a row is noted against the calls it falls between
\* (whether it approved a pending application, and of which amount) or into
StatusWrite(uid, id, status) ==
    /\ UpdateStatusRequest(uid, id, status)
    /\ LET hit == {r \in Touchable("membership_applications", "update", uid,
                                    membership_applications) : r.id = id}
           wrote == lastOp'.ok /\ hit # {}
           old == CHOOSE r \in hit : TRUE
           w == IF old.status = "pending" /\ status = "approved"
                THEN [approval |-> TRUE, amount |-> old.amount]
                ELSE [approval |-> FALSE, amount |-> 0]
       IN  stats' = IF ~wrote THEN stats
                    ELSE IF stats.pc = 0
                    THEN [stats EXCEPT !.between =
                             IF @.n = 0 THEN [n |-> 1, w |-> <<w>>]
                             ELSE [n |-> 2, w |-> <<>>]]
                    ELSE [stats EXCEPT !.during = TRUE]
    /\ UNCHANGED <<session, guardVars, loginVars, storageVars, pageVars, fetched, cache, mutation>>

\* the admin is signed in with the dashboard open; one pending and one
\* approved application exist
InitDashboard ==
    /\ auth_users = Identities
    /\ profiles = {[id |-> i, full_name |-> "Asha"] : i \in Identities}
    /\ membership_applications = ApplicationsTable(1, 1, 0)
    /\ user_roles = [k \in Identities \X Roles |->
                        IF k = <<BootstrapIdentity, "admin">> THEN 1 ELSE 0]
    /\ lastOp = NoOp
    /\ session = BootstrapIdentity
    /\ InitGuard
    /\ InitLogin
    /\ InitAdmin

NextDashboard ==
    \/ StatsStart
    \/ \E error \in BOOLEAN : StatsMembersResolves(error)
    \/ \E error \in BOOLEAN : StatsPendingResolves(error)
    \/ \E error \in BOOLEAN : StatsRevenueResolves(error)
    \/ \E id \in 1..2, status \in application_status :
          StatusWrite(BootstrapIdentity, id, status)

SpecDashboard == InitDashboard /\ [][NextDashboard]_vars

\* the sum of the amounts of a set of rows
RECURSIVE SumOfAmounts(_)
SumOfAmounts(rows) ==
    IF rows = {} THEN 0
    ELSE LET r == CHOOSE x \in rows : TRUE
         IN  r.amount + SumOfAmounts(rows \ {r})

ApprovedRows == {r \in membership_applications : r.status = "approved"}

\* C14: when two fetchDashboardStats calls have returned with no write during
\* either and exactly one write between them, a change of one application
\* with amount a from pending to approved, the later call returns a pending
\* count one lower, a total-members count one higher and a revenue higher by
\* a than the earlier one; and as long as no write has occurred since a call
\* started, the total members it returned is the number of approved
\* applications and the revenue the sum of their amounts.
C14_ApprovalMovesStats ==
    /\ (/\ stats.result # <<>> /\ stats.prev # <<>>
        /\ stats.clean
        /\ stats.gap.n = 1
        /\ stats.gap.w[1].approval) =>
           /\ stats.result[1].pendingApplications = stats.prev[1].pendingApplications - 1
           /\ stats.result[1].totalMembers = stats.prev[1].totalMembers + 1
           /\ stats.result[1].totalRevenue = stats.prev[1].totalRevenue + stats.gap.w[1].amount
    /\ (stats.result # <<>> /\ stats.clean /\ stats.between.n = 0 /\ ~stats.during) =>
           /\ stats.result[1].totalMembers = Cardinality(ApprovedRows)
           /\ stats.result[1].totalRevenue = SumOfAmounts(ApprovedRows)

\* two calls returned around the approval of one pending application
C14_Witness ==
    /\ stats.result # <<>> /\ stats.prev # <<>>
    /\ stats.clean
    /\ stats.gap.n = 1
    /\ stats.gap.w[1].approval
    /\ stats.result[1].totalRevenue = stats.prev[1].totalRevenue + 150

\* C22: the statistics one fetchDashboardStats call returns describe one
\* state of the table even when a status write by another admin session
\* falls into the call: the returned total-members count is the number of
\* rows whose amounts were summed into the returned revenue, and no
\* application is counted in both the returned approved and pending counts.
C22_StatsOfOneSnapshot ==
    stats.result # <<>> =>
        /\ stats.result[1].totalMembers = stats.summed
        /\ ~stats.twice

(* ------------------------ the bootstrap migration ---------------------- *)

NextBootstrap ==
    \/ \E id \in Identities : CreateIdentity(id)
    \/ \E id \in Identities : DeleteIdentity(id)
    \/ AssignAdminRole
    \/ \E uid \in Callers, id \in Identities, role \in Roles : InsertUserRole(uid, id, role)
    \/ \E uid \in Callers, id \in Identities, old \in Roles, role \in Roles :
          UpdateUserRole(uid, id, old, role)
    \/ \E uid \in Callers, id \in Identities, role \in Roles : DeleteUserRole(uid, id, role)

SpecBootstrap == Init /\ [][NextBootstrap]_vars

\* C15: a run of the bootstrap script when no identity has the configured
\* email leaves user_roles unchanged; a run when the identity exists leaves
\* exactly one (identity, 'admin') row and every other pair as it was; and
\* whatever runs and grant insertions are interleaved, no (identity, role)
\* pair is ever stored twice.
C15_BootstrapIdempotent ==
    /\ [](\A k \in DOMAIN user_roles : user_roles[k] <= 1)
    /\ [][(lastOp'.op = "operator" /\ lastOp'.table = "user_roles") =>
             IF BootstrapIdentity \in auth_users
             THEN /\ user_roles'[<<BootstrapIdentity, "admin">>] = 1
                  /\ \A k \in DOMAIN user_roles :
                        k # <<BootstrapIdentity, "admin">> => user_roles'[k] = user_roles[k]
             ELSE user_roles' = user_roles]_vars

\* the script has just run for the existing identity, which also holds the
\* member role
C15_Witness ==
    /\ lastOp.op = "operator" /\ lastOp.table = "user_roles" /\ lastOp.ok
    /\ user_roles[<<BootstrapIdentity, "admin">>] = 1
    /\ user_roles[<<BootstrapIdentity, "member">>] = 1

(* ----------------------------- document bucket ------------------------- *)

\* storage.buckets row of 'aadhar-cards': public
bucket_public == TRUE

\* storage.buckets row of 'aadhar-cards': file_size_limit
file_size_limit == 5242880

\* storage.buckets row of 'aadhar-cards': allowed_mime_types
allowed_mime_types == {"image/jpeg", "image/png", "application/pdf"}

\* sizes of the files offered: 2 MiB, the limit, one byte more, 6 MiB
SizeInputs == {2097152, 5242880, 5242881, 6291456}

\* content types of the files offered
MimeInputs == allowed_mime_types \cup {"text/plain"}

\* any size passes
SizeAllowed_Unlimited(size) == TRUE

\* the bucket's per-object size limit
SizeAllowed(size) == size <= file_size_limit

\* "Users can upload their own aadhar card.": FOR INSERT TO authenticated
\* WITH CHECK ((storage.foldername(name))[1] = auth.uid()::text)
ObjectsInsertPolicy(uid, folder) == uid # NoUser /\ folder = uid

\* "Users can view their own aadhar card.": FOR SELECT TO authenticated
ObjectsSelectPolicy(uid, folder) == uid # NoUser /\ folder = uid

\* "Users can update their own aadhar card.": FOR UPDATE TO authenticated
ObjectsUpdatePolicy(uid, folder) == uid # NoUser /\ folder = uid

\* an upload that creates the object at a path or overwrites the one there:
\* the bucket's limits, then the INSERT policy for a new object and the
\* UPDATE policy for a stored one
Upload(uid, folder, size, mime) ==
    LET allowed == IF objects[folder] = NoObject
                   THEN ObjectsInsertPolicy(uid, folder)
                   ELSE ObjectsInsertPolicy(uid, folder) /\ ObjectsUpdatePolicy(uid, folder)
        ok == SizeAllowed(size) /\ mime \in allowed_mime_types /\ allowed
    IN  /\ objects' = IF ok THEN [objects EXCEPT ![folder] =
                                     [size |-> size, mime |-> mime, by |-> uid]]
                      ELSE objects
        /\ storageOp' = [op |-> "upload", uid |-> uid, folder |-> folder,
                         size |-> size, mime |-> mime, ok |-> ok]
        /\ UNCHANGED <<dbVars, session, guardVars, loginVars, fetched, cache, mutation,
                       stats, pageVars>>

\* a download through the authenticated API, checked by the SELECT policy
Download(uid, folder) ==
    LET ok == objects[folder] # NoObject /\ ObjectsSelectPolicy(uid, folder)
    IN  /\ storageOp' = [op |-> "download", uid |-> uid, folder |-> folder,
                         size |-> objects[folder].size, mime |-> objects[folder].mime,
                         ok |-> ok]
        /\ UNCHANGED <<dbVars, session, guardVars, loginVars, fetched, cache, mutation,
                       stats, pageVars, objects>>

\* a read through the public URL of a public bucket, which no policy checks
PublicRead(uid, folder) ==
    LET ok == objects[folder] # NoObject /\ bucket_public
    IN  /\ storageOp' = [op |-> "read", uid |-> uid, folder |-> folder,
                         size |-> objects[folder].size, mime |-> objects[folder].mime,
                         ok |-> ok]
        /\ UNCHANGED <<dbVars, session, guardVars, loginVars, fetched, cache, mutation,
                       stats, pageVars, objects>>

InitStorage ==
    /\ InitSeeded
    /\ session = NoUser
    /\ InitGuard
    /\ InitLogin
    /\ InitAdmin

NextStorage ==
    \/ \E uid \in Callers, folder \in Identities, size \in SizeInputs, mime \in MimeInputs :
          Upload(uid, folder, size, mime)
    \/ \E uid \in Callers, folder \in Identities : Download(uid, folder)
    \/ \E uid \in Callers, folder \in Identities : PublicRead(uid, folder)

SpecStorage == InitStorage /\ [][NextStorage]_vars

\* C16: every read, creation and overwrite of an object under prefix P that
\* the bucket serves is requested by identity P; no other authenticated user,
\* administrator or unauthenticated caller reads or writes under P.
C16_PrefixOwnerOnly ==
    (storageOp.op # "none" /\ storageOp.ok) => storageOp.uid = storageOp.folder

\* C17: an upload by an authenticated identity I to first folder F with size
\* s and content type t is accepted exactly when F = I, s <= 5242880 and t
\* is image/jpeg, image/png or application/pdf; an accepted upload stores
\* the object and a rejected one leaves the bucket unchanged.
C17_UploadAcceptedIff ==
    /\ []((storageOp.op = "upload" /\ storageOp.uid # NoUser) =>
             (storageOp.ok <=>
                 /\ storageOp.folder = storageOp.uid
                 /\ storageOp.size <= 5242880
                 /\ storageOp.mime \in {"image/jpeg", "image/png", "application/pdf"}))
    /\ [][storageOp'.op = "upload" =>
             IF storageOp'.ok
             THEN objects' = [objects EXCEPT ![storageOp'.folder] =
                                 [size |-> storageOp'.size, mime |-> storageOp'.mime,
                                  by |-> storageOp'.uid]]
             ELSE objects' = objects]_vars

\* a 2 MiB PDF was accepted under the uploader's own prefix, where a stored
\* object had earlier survived a rejected upload
C17_Witness ==
    /\ storageOp.op = "upload" /\ storageOp.ok
    /\ storageOp.uid = "u2" /\ storageOp.folder = "u2"
    /\ storageOp.size = 2097152 /\ storageOp.mime = "application/pdf"
    /\ objects["u1"] # NoObject

(* --------------------------- referential integrity --------------------- *)

\* the full names offered when a profile is inserted
FullNames == {"Asha", "Ravi"}

NextIntegrity ==
    \/ \E id \in Identities : CreateIdentity(id)
    \/ \E id \in Identities : DeleteIdentity(id)
    \/ AssignAdminRole
    \/ \E uid \in Identities, id \in Identities, full_name \in FullNames :
          InsertProfile(uid, id, full_name)
    \/ \E uid \in Identities, id \in Identities : DeleteProfile(uid, id)
    \/ \E uid \in Identities, owner \in Identities, status \in application_status,
          amount \in Amounts : InsertApplication(uid, owner, status, amount)
    \/ \E uid \in Identities, id \in 1..MaxApps : DeleteApplication(uid, id)

SpecIntegrity == Init /\ [][NextIntegrity]_vars

\* C18 as stated: every identity has exactly one profile, every profile's id
\* is an existing identity and every application's owner is an existing
\* profile.
C18_ExactlyOneProfilePerIdentity ==
    /\ \A i \in auth_users : Cardinality({p \in profiles : p.id = i}) = 1
    /\ \A p \in profiles : p.id \in auth_users
    /\ \A a \in membership_applications : \E p \in profiles : p.id = a.user_id

\* C18, amended: after any creations and deletions of identities, profiles and
\* applications, every identity has at most one profile (no two profiles have
\* the same id), every profile's id is an
\* existing identity and every application's owner is an existing profile;
\* the removal of an identity leaves no profile with its id and no
\* application owned by it.
C18_ReferentialIntegrity ==
    /\ [](/\ \A p \in profiles, q \in profiles : p.id = q.id => p = q
          /\ \A p \in profiles : p.id \in auth_users
          /\ \A a \in membership_applications : \E p \in profiles : p.id = a.user_id)
    /\ [][\A i \in auth_users \ auth_users' :
             /\ \A p \in profiles' : p.id # i
             /\ \A a \in membership_applications' : a.user_id # i]_vars

\* an identity was removed and an application owned by its profile went
\* with it
C18_Witness ==
    /\ lastOp.op = "operator" /\ lastOp.table = "auth.users"
    /\ lastOp.arg \notin auth_users
    /\ lastOp.rows # {}
    /\ \A a \in membership_applications : a.user_id # lastOp.arg

(* ------------------------------ pagination ----------------------------- *)

\* Math.ceil((data?.count || 0) / ITEMS_PER_PAGE)
totalPages(data) ==
    IF data = <<>> THEN 0
    ELSE (data[1] + ITEMS_PER_PAGE - 1) \div ITEMS_PER_PAGE

\* isLoading of useQuery with keepPreviousData: fetching with nothing to show
isLoading(view) == view.pending /\ view.data = <<>>

\* a state setter ran: when the query key changed, the query of the new key
\* is sent and the previous data stays on screen
Rekeyed(old, new) ==
    IF new.page # old.page \/ ("statusFilter" \in DOMAIN old /\ new.statusFilter # old.statusFilter)
    THEN [new EXCEPT !.pending = TRUE]
    ELSE new

\* ApplicationsTable, PaginationPrevious: disabled={page === 1},
\* setPage(p => Math.max(p - 1, 1))
ApplicationsPrevious ==
    /\ ~(appsView.page = 1)
    /\ appsView' = Rekeyed(appsView,
                     [appsView EXCEPT !.page = IF @ - 1 >= 1 THEN @ - 1 ELSE 1])
    /\ UNCHANGED <<dbVars, session, guardVars, loginVars, fetched, cache, mutation,
                   stats, storageVars, membersView>>

\* ApplicationsTable, PaginationNext: disabled={page === totalPages},
\* setPage(p => Math.min(p + 1, totalPages))
ApplicationsNext ==
    /\ ~(appsView.page = totalPages(appsView.data))
    /\ appsView' = Rekeyed(appsView,
                     [appsView EXCEPT !.page = IF @ + 1 <= totalPages(appsView.data)
                                               THEN @ + 1 ELSE totalPages(appsView.data)])
    /\ UNCHANGED <<dbVars, session, guardVars, loginVars, fetched, cache, mutation,
                   stats, storageVars, membersView>>

\* ApplicationsTable, Tabs onValueChange: setStatusFilter(value); setPage(1)
ApplicationsFilter(value) ==
    /\ value # appsView.statusFilter
    /\ appsView' = Rekeyed(appsView, [appsView EXCEPT !.statusFilter = value, !.page = 1])
    /\ UNCHANGED <<dbVars, session, guardVars, loginVars, fetched, cache, mutation,
                   stats, storageVars, membersView>>

\* the query of the applications table's current key settles: with the count
\* fetchApplications returns, or with an error, after which the data shown
\* before is either kept or dropped
ApplicationsQuerySettles(error, keep) ==
    /\ appsView.pending
    /\ appsView' = [appsView EXCEPT
           !.pending = FALSE,
           !.data = IF ~error
                    THEN <<FetchApplications(session, appsView.page,
                                             appsView.statusFilter).count>>
                    ELSE IF keep THEN @ ELSE <<>>]
    /\ UNCHANGED <<dbVars, session, guardVars, loginVars, fetched, cache, mutation,
                   stats, storageVars, membersView>>

\* MembersTable, PaginationPrevious: disabled={page === 1 || isLoading}
MembersPrevious ==
    /\ ~(membersView.page = 1 \/ isLoading(membersView))
    /\ membersView' = Rekeyed(membersView,
                        [membersView EXCEPT !.page = IF @ - 1 >= 1 THEN @ - 1 ELSE 1])
    /\ UNCHANGED <<dbVars, session, guardVars, loginVars, fetched, cache, mutation,
                   stats, storageVars, appsView>>

\* MembersTable, PaginationNext: disabled={page === totalPages || isLoading}
MembersNext ==
    /\ ~(membersView.page = totalPages(membersView.data) \/ isLoading(membersView))
    /\ membersView' = Rekeyed(membersView,
                        [membersView EXCEPT !.page = IF @ + 1 <= totalPages(membersView.data)
                                                     THEN @ + 1
                                                     ELSE totalPages(membersView.data)])
    /\ UNCHANGED <<dbVars, session, guardVars, loginVars, fetched, cache, mutation,
                   stats, storageVars, appsView>>

\* the query of the members table's current key settles
MembersQuerySettles(error, keep) ==
    /\ membersView.pending
    /\ membersView' = [membersView EXCEPT
           !.pending = FALSE,
           !.data = IF ~error THEN <<FetchMembers(session, membersView.page).count>>
                    ELSE IF keep THEN @ ELSE <<>>]
    /\ UNCHANGED <<dbVars, session, guardVars, loginVars, fetched, cache, mutation,
                   stats, storageVars, appsView>>

\* the admin opens both tables over a table in which each status has either
\* no row or MaxPerStatus rows
InitPaging ==
    /\ auth_users = Identities
    /\ profiles = {[id |-> i, full_name |-> "Asha"] : i \in Identities}
    /\ \E nP \in {0, MaxPerStatus}, nA \in {0, MaxPerStatus}, nR \in {0, MaxPerStatus} :
          membership_applications = ApplicationsTable(nP, nA, nR)
    /\ user_roles = [k \in Identities \X Roles |->
                        IF k = <<BootstrapIdentity, "admin">> THEN 1 ELSE 0]
    /\ lastOp = NoOp
    /\ session = BootstrapIdentity
    /\ InitGuard
    /\ InitLogin
    /\ InitAdmin

NextPaging ==
    \/ ApplicationsPrevious
    \/ ApplicationsNext
    \/ \E value \in StatusFilters : ApplicationsFilter(value)
    \/ \E error \in BOOLEAN, keep \in BOOLEAN : ApplicationsQuerySettles(error, keep)
    \/ MembersPrevious
    \/ MembersNext
    \/ \E error \in BOOLEAN, keep \in BOOLEAN : MembersQuerySettles(error, keep)

SpecPaging == InitPaging /\ [][NextPaging]_vars

\* C19: the page number of the applications table and of the members table
\* is at least 1 after any Previous, Next and filter clicks, also while a
\* query is loading and when the count is 0; a change of the status filter
\* sets the page to 1.
C19_PageAtLeastOne ==
    /\ [](appsView.page >= 1 /\ membersView.page >= 1)
    /\ [][appsView'.statusFilter # appsView.statusFilter => appsView'.page = 1]_vars

====
